---- MODULE Spec2Model ----
(***************************************************************************)
(* python-crud: the record store (database/db_manager.py, DatabaseManager, *)
(* driven through a DuckDB connection), the schema validator               *)
(* (database/schema.py, SchemaValidator) and the handlers that call them   *)
(* (components/data_entry.py, components/data_display.py).                 *)
(*                                                                         *)
(* Every conn.execute() is one auto-committed statement.  The store is     *)
(* opened on a database file that may already hold rows                    *)
(* (DatabaseManager.__init__, CREATE TABLE IF NOT EXISTS), so the initial  *)
(* state ranges over bounded file contents.  On this engine add_record and *)
(* delete_record raise before they store anything: rows and tombstones     *)
(* come from the file, update_record edits rows and undo_delete puts       *)
(* tombstoned rows back.                                                   *)
(*                                                                         *)
(* Spec: calls on the store, one at a time.  SpecConc: the statements of   *)
(* update_record and undo_delete of two sessions, interleaved.  SpecVal:   *)
(* the validator loading a schema source and applied to records and        *)
(* batches.  SpecUi: the handlers of two sessions.                         *)
(***************************************************************************)
EXTENDS Integers, Sequences, FiniteSets, TLC

\* ------------------------------------------------------------------ bounds
MaxId == 1
MaxVersion == 3
MaxTombstones == 2
MaxRows == 2

Ids == 1..MaxId
\* Timestamps written before this process opened the file.
PastTimes == 0..1
\* CURRENT_TIMESTAMP of this process's statements: later than the file's stamps.
Now == 2
\* Two distinct assignments of the seven schema columns (commodity, age_group,
\* mean_consumption_chronic, mean_consumption_acute, percentile_97_chronic,
\* percentile_97_acute, notes), as handle_add_record / save_edited_record build
\* them; FormColumns gives what each holds.
FieldVals == {"r1", "r2"}
Tables == {"food_consumption", "other_table"}
Sessions == {"s1", "s2"}
\* Column sets of an imported DataFrame: the store looks for these two only.
RequiredColumns == {"commodity", "age_group"}
\* SQL NULL / Python None.
Null == -1

\* ------------------------------------------------- facts of the engine API
\* duckdb's fetchone() returns a plain tuple (or None): it has no keys() and
\* cannot be indexed by column name.
RowHasKeys == FALSE
\* The column "id INTEGER PRIMARY KEY" has no DEFAULT and no sequence: an INSERT
\* that names no id supplies NULL for it.
DefaultId == Null
\* DuckDB has no last_insert_rowid() function.
HasLastInsertRowid == FALSE
\* DuckDB's DELETE statement takes no ORDER BY / LIMIT clause.
DeleteAcceptsOrderByLimit == FALSE

\* --------------------------------------------------------- SQL statements
\* A row of food_consumption without its key; the table is a function id -> row.
Row(f, v, c, u) == [fields |-> f, version |-> v, created_at |-> c, updated_at |-> u]

\* SELECT * FROM food_consumption WHERE id = ?  -> fetchone(): {} is None.
SelectById(fc, id) == IF id \in DOMAIN fc THEN {[id |-> id] @@ fc[id]} ELSE {}

\* INSERT INTO food_consumption (...) VALUES (...): PRIMARY KEY is NOT NULL and unique.
InsertOk(fc, id) == id # Null /\ id \notin DOMAIN fc

InsertRow(fc, id, row) == fc @@ (id :> row)

\* UPDATE food_consumption SET <fields>, version = ?, updated_at = CURRENT_TIMESTAMP
\* WHERE id = ?   (no row matched: nothing changes, no error)
UpdateRow(fc, id, data, version, ts) ==
    IF id \in DOMAIN fc
    THEN [fc EXCEPT ![id] = [@ EXCEPT !.fields = data, !.version = version, !.updated_at = ts]]
    ELSE fc

\* DELETE FROM food_consumption WHERE id = ?
DeleteRow(fc, id) == [i \in DOMAIN fc \ {id} |-> fc[i]]

\* Positions of the rows of deleted_records matching (original_id, table_name).
Matching(dr, id, table) ==
    {i \in 1..Len(dr) : dr[i].original_id = id /\ dr[i].table_name = table}

\* ... ORDER BY deleted_at DESC LIMIT 1: any row with the greatest deleted_at
\* (the engine's choice among equal timestamps).
Latest(dr, id, table) ==
    {i \in Matching(dr, id, table) :
        \A j \in Matching(dr, id, table) : dr[j].deleted_at <= dr[i].deleted_at}

RemoveAt(dr, i) == SubSeq(dr, 1, i - 1) \o SubSeq(dr, i + 1, Len(dr))

\* json.dumps(dict(...)) / json.loads(...): the payload text wraps the column
\* mapping; a datetime value (a non-NULL TIMESTAMP column) is not serializable.
JsonSerializable(rec) == rec.created_at = Null /\ rec.updated_at = Null

json_dumps(rec) == [json |-> rec]

json_loads(text) == text.json

\* --------------------------------------------------- DatabaseManager API
\* What one call leaves behind: the two tables, how the call ended (a returned
\* value or the exception raised), the id it returned and the rows it returned.
Outcome(fc, dr, result, retid, rows) ==
    [fc |-> fc, dr |-> dr, result |-> result, retid |-> retid, rows |-> rows]

\* SELECT * FROM <table_name> -> fetchdf(): every row of the active table.
get_all_records(fc, dr, table) ==
    IF table # "food_consumption"
    THEN {Outcome(fc, dr, "CatalogException", Null, {})}
    ELSE {Outcome(fc, dr, "rows", Null, {[id |-> i] @@ fc[i] : i \in DOMAIN fc})}

get_record_by_id(fc, dr, table, id) ==
    IF table # "food_consumption"
    THEN {Outcome(fc, dr, "CatalogException", Null, {})}
    ELSE IF SelectById(fc, id) = {}
         THEN {Outcome(fc, dr, "None", Null, {})}
         ELSE {Outcome(fc, dr, "row", Null, SelectById(fc, id))}

add_record(fc, dr, ts, table, data) ==
    IF table # "food_consumption"
    THEN {Outcome(fc, dr, "None", Null, {})}
    ELSE IF ~InsertOk(fc, DefaultId)
         THEN {Outcome(fc, dr, "ConstraintException", Null, {})}
         ELSE IF HasLastInsertRowid
              THEN {Outcome(InsertRow(fc, DefaultId, Row(data, 1, ts, ts)), dr,
                            "id", DefaultId, {})}
              ELSE {Outcome(InsertRow(fc, DefaultId, Row(data, 1, ts, ts)), dr,
                            "CatalogException", Null, {})}

\* SELECT version FROM food_consumption WHERE id = ?  -> fetchone()
SelectVersion(fc, id) == IF id \in DOMAIN fc THEN {fc[id].version} ELSE {}

\* update_record with the missing row tolerated: the UPDATE matches nothing.
update_record_missing_ok(fc, dr, ts, table, id, data) ==
    IF table # "food_consumption"
    THEN {Outcome(fc, dr, "None", Null, {})}
    ELSE IF SelectVersion(fc, id) = {}
         THEN {Outcome(UpdateRow(fc, id, data, 1, ts), dr, "None", Null, {})}
         ELSE {Outcome(UpdateRow(fc, id, data, v + 1, ts), dr, "None", Null, {}) :
                   v \in SelectVersion(fc, id)}

\* update_record writing the version it read back unchanged.
update_record_no_bump(fc, dr, ts, table, id, data) ==
    IF table # "food_consumption"
    THEN {Outcome(fc, dr, "None", Null, {})}
    ELSE IF SelectVersion(fc, id) = {}
         THEN {Outcome(fc, dr, "TypeError", Null, {})}
         ELSE {Outcome(UpdateRow(fc, id, data, v, ts), dr, "None", Null, {}) :
                   v \in SelectVersion(fc, id)}

\* update_record replacing the row by delete and insert, the insert lost.
update_record_drops_row(fc, dr, ts, table, id, data) ==
    IF table # "food_consumption"
    THEN {Outcome(fc, dr, "None", Null, {})}
    ELSE IF SelectVersion(fc, id) = {}
         THEN {Outcome(fc, dr, "TypeError", Null, {})}
         ELSE {Outcome(DeleteRow(fc, id), dr, "None", Null, {})}

update_record(fc, dr, ts, table, id, data) ==
    IF table # "food_consumption"
    THEN {Outcome(fc, dr, "None", Null, {})}
    ELSE IF SelectVersion(fc, id) = {}
         THEN {Outcome(fc, dr, "TypeError", Null, {})}
         ELSE {Outcome(UpdateRow(fc, id, data, v + 1, ts), dr, "None", Null, {}) :
                   v \in SelectVersion(fc, id)}

\* delete_record reporting success without looking whether the row was found.
delete_record_missing_true(fc, dr, ts, table, id) ==
    IF table # "food_consumption"
    THEN {Outcome(fc, dr, "CatalogException", Null, {})}
    ELSE IF SelectById(fc, id) = {}
         THEN {Outcome(fc, dr, "True", Null, {})}
         ELSE {Outcome(fc, dr, "AttributeError", Null, {})}

delete_record(fc, dr, ts, table, id) ==
    IF table # "food_consumption"
    THEN {Outcome(fc, dr, "CatalogException", Null, {})}
    ELSE IF SelectById(fc, id) = {}
         THEN {Outcome(fc, dr, "False", Null, {})}
         ELSE IF ~RowHasKeys
              THEN {Outcome(fc, dr, "AttributeError", Null, {})}
              ELSE {IF JsonSerializable(rec)
                    THEN Outcome(DeleteRow(fc, id),
                                 Append(dr, [original_id |-> id, table_name |-> table,
                                             record_data |-> json_dumps(rec),
                                             deleted_at |-> ts]),
                                 "True", Null, {})
                    ELSE Outcome(fc, dr, "TypeError", Null, {}) :
                        rec \in SelectById(fc, id)}

\* The row the reinsert of undo_delete writes from the decoded payload.
PayloadRow(p) == Row(p.fields, p.version, p.created_at, p.updated_at)

\* undo_delete removing the tombstone before the reinsert, and failing there.
undo_delete_removes_first(fc, dr, original_id, table) ==
    IF Latest(dr, original_id, table) = {}
    THEN {Outcome(fc, dr, "False", Null, {})}
    ELSE {Outcome(fc, RemoveAt(dr, j), "ParserException", Null, {}) :
              j \in Latest(dr, original_id, table)}

undo_delete(fc, dr, original_id, table) ==
    IF Latest(dr, original_id, table) = {}
    THEN {Outcome(fc, dr, "False", Null, {})}
    ELSE UNION {
        LET record_data == json_loads(dr[i].record_data) IN
        IF table # "food_consumption"
        THEN {Outcome(fc, dr, "CatalogException", Null, {})}
        ELSE IF ~InsertOk(fc, record_data.id)
             THEN {Outcome(fc, dr, "ConstraintException", Null, {})}
             ELSE IF ~DeleteAcceptsOrderByLimit
                  THEN {Outcome(InsertRow(fc, record_data.id, PayloadRow(record_data)),
                                dr, "ParserException", Null, {})}
                  ELSE {Outcome(InsertRow(fc, record_data.id, PayloadRow(record_data)),
                                RemoveAt(dr, j), "True", Null, {}) :
                            j \in Latest(dr, original_id, table)} :
        i \in Latest(dr, original_id, table)}

\* The loop of import_csv_data over df.iterrows(): one add_record per row; an
\* exception from a row's insert ends the call, rows stored before it stay.
RECURSIVE ImportRows(_, _, _, _, _)
ImportRows(fc, dr, ts, table, rows) ==
    IF rows = <<>>
    THEN {Outcome(fc, dr, "True", Null, {})}
    ELSE UNION {IF o.result = "id"
                THEN ImportRows(o.fc, o.dr, ts, table, Tail(rows))
                ELSE {Outcome(o.fc, o.dr, o.result, Null, {})} :
                    o \in add_record(fc, dr, ts, table, Head(rows))}

\* import_csv_data without the check of the required columns.
import_csv_data_no_column_check(fc, dr, ts, table, columns, rows) ==
    IF table # "food_consumption"
    THEN {Outcome(fc, dr, "False", Null, {})}
    ELSE ImportRows(fc, dr, ts, table, rows)

import_csv_data(fc, dr, ts, table, columns, rows) ==
    IF table # "food_consumption"
    THEN {Outcome(fc, dr, "False", Null, {})}
    ELSE IF ~(RequiredColumns \subseteq columns)
         THEN {Outcome(fc, dr, "ValueError", Null, {})}
         ELSE ImportRows(fc, dr, ts, table, rows)

\* ------------------------------------------------------- SchemaValidator
\* Python values held by a record or by a DataFrame cell.  Numbers are kept in
\* tenths (3.7 is 37), so a float and an int compare as they do in Python.
NoneVal == [k |-> "none", s |-> "", n |-> 0]
NaN == [k |-> "nan", s |-> "", n |-> 0]
\* float('inf'): a float above every bound a schema holds.
Inf == [k |-> "inf", s |-> "", n |-> 0]
StrVal(s) == [k |-> "str", s |-> s, n |-> 0]
IntVal(n) == [k |-> "int", s |-> "", n |-> n]
FloatVal(t) == [k |-> "float", s |-> "", n |-> t]

\* The number a numeric value stands for, in tenths.
Num(v) == IF v.k = "int" THEN 10 * v.n ELSE IF v.k = "inf" THEN 1000000 ELSE v.n

\* The texts float() parses, with the float they give (in tenths).
FloatOfText ==
    ("3" :> 30) @@ ("-5" :> -50) @@ ("7" :> 70) @@ ("0" :> 0) @@ ("3.7" :> 37)
    @@ ("3.0" :> 30) @@ ("-5.0" :> -50) @@ ("7.0" :> 70) @@ ("0.0" :> 0)

\* The texts int() parses.
IntOfText == ("3" :> 3) @@ ("-5" :> -5) @@ ("7" :> 7) @@ ("0" :> 0)

\* str() of an int and of a float.
TextOfInt == (3 :> "3") @@ (-5 :> "-5") @@ (7 :> "7") @@ (0 :> "0")

TextOfFloat ==
    (30 :> "3.0") @@ (-50 :> "-5.0") @@ (70 :> "7.0") @@ (0 :> "0.0") @@ (37 :> "3.7")

\* A conversion either gives a value or raises: ValueError / TypeError, which
\* validate_record catches, or OverflowError, which it does not.
Converted(v) == [ok |-> TRUE, v |-> v, exc |-> "None"]
Raised == [ok |-> FALSE, v |-> NoneVal, exc |-> "ValueError"]
Overflow == [ok |-> FALSE, v |-> NoneVal, exc |-> "OverflowError"]

\* float(x)
float(v) ==
    CASE v.k \in {"float", "nan", "inf"} -> Converted(v)
      [] v.k = "int" -> Converted(FloatVal(10 * v.n))
      [] v.k = "str" -> IF v.s \in DOMAIN FloatOfText THEN Converted(FloatVal(FloatOfText[v.s]))
                        ELSE IF v.s = "nan" THEN Converted(NaN)
                        ELSE IF v.s = "inf" THEN Converted(Inf)
                        ELSE Raised
      [] OTHER -> Raised

\* int(x): a float is truncated toward zero; int(float('nan')) is a ValueError,
\* int(float('inf')) an OverflowError.
int(v) ==
    CASE v.k = "int" -> Converted(v)
      [] v.k = "inf" -> Overflow
      [] v.k = "float" -> Converted(IntVal(IF v.n >= 0 THEN v.n \div 10
                                        ELSE 0 - ((0 - v.n) \div 10)))
      [] v.k = "str" -> IF v.s \in DOMAIN IntOfText THEN Converted(IntVal(IntOfText[v.s]))
                        ELSE Raised
      [] OTHER -> Raised

\* str(x)
str(v) ==
    CASE v.k = "str" -> v.s
      [] v.k = "int" -> TextOfInt[v.n]
      [] v.k = "float" -> TextOfFloat[v.n]
      [] v.k = "nan" -> "nan"
      [] v.k = "inf" -> "inf"
      [] OTHER -> "None"

\* A field rule of a loaded schema: 'min' / 'max' are keys a rule may lack.
Rule(type, required, hasmin, min, hasmax, max) ==
    [type |-> type, required |-> required, hasmin |-> hasmin, min |-> min,
     hasmax |-> hasmax, max |-> max]

\* The built-in schema.
_get_default_schema ==
    "food_consumption" :>
        [commodity |-> Rule("str", TRUE, FALSE, 0, FALSE, 0),
         age_group |-> Rule("str", TRUE, FALSE, 0, FALSE, 0),
         mean_consumption_chronic |-> Rule("float", FALSE, TRUE, 0, FALSE, 0),
         mean_consumption_acute |-> Rule("float", FALSE, TRUE, 0, FALSE, 0),
         percentile_97_chronic |-> Rule("float", FALSE, TRUE, 0, FALSE, 0),
         percentile_97_acute |-> Rule("float", FALSE, TRUE, 0, FALSE, 0),
         notes |-> Rule("str", FALSE, FALSE, 0, FALSE, 0)]

\* A field rule as the schema file holds it: 'type' is a key it may lack, and
\* its value is whatever the file says (a name, or something that is no text).
RawRule(hastype, type, required, hasmin, min, hasmax, max) ==
    [hastype |-> hastype, type |-> type, required |-> required, hasmin |-> hasmin,
     min |-> min, hasmax |-> hasmax, max |-> max]

\* str.lower() on the type names of the model.
Lower == [n \in {"str", "string", "float", "Float", "int", "integer", "bool",
                 "boolean", "date", "datetime", "number"} |->
             IF n = "Float" THEN "float" ELSE n]

\* The type names the if/elif chain knows, with what each becomes: str, float,
\* int, bool (the Python types) or the marker 'date' / 'datetime'.
TypeOfName ==
    ("str" :> "str") @@ ("string" :> "str") @@ ("float" :> "float")
    @@ ("int" :> "int") @@ ("integer" :> "int") @@ ("bool" :> "bool")
    @@ ("boolean" :> "bool") @@ ("date" :> "date") @@ ("datetime" :> "datetime")

\* rules.copy() with 'type' replaced when its name is known: a name the chain
\* does not know stays in the rule as the text the file holds.
ProcessedRule(rules) ==
    Rule(IF ~rules.hastype THEN "None"
         ELSE IF Lower[rules.type.s] \in DOMAIN TypeOfName
         THEN TypeOfName[Lower[rules.type.s]]
         ELSE rules.type.s,
         rules.required, rules.hasmin, rules.min, rules.hasmax, rules.max)

\* What _load_schema gives: the exception raised (or "None") and the schemas.
Loaded(raised, schemas) == [raised |-> raised, schemas |-> schemas]

\* A schema source: whether the path exists, its extension, and what reading
\* and parsing it gives (kind): 'unreadable' (open raises), 'syntax' (the parser
\* raises), 'scalar' (the document is no mapping) or 'mapping' (raw).
_load_schema(schema_file) ==
    IF ~schema_file.exists
    THEN Loaded("None", _get_default_schema)
    ELSE IF schema_file.kind = "unreadable"
    THEN Loaded("None", _get_default_schema)
    ELSE IF schema_file.ext \notin {".yaml", ".yml", ".toml"}
    THEN Loaded("None", _get_default_schema)
    ELSE IF schema_file.kind \in {"syntax", "scalar"}
    THEN Loaded("None", _get_default_schema)
    ELSE IF \E t \in DOMAIN schema_file.raw : \E f \in DOMAIN schema_file.raw[t] :
                /\ schema_file.raw[t][f].hastype
                /\ schema_file.raw[t][f].type.k # "str"
    THEN Loaded("None", _get_default_schema)
    ELSE Loaded("None",
             [t \in DOMAIN schema_file.raw |->
                 [f \in DOMAIN schema_file.raw[t] |->
                     ProcessedRule(schema_file.raw[t][f])]])

\* An error message: f"{field} {text}" or f"{field} {text} {bound}".
Msg(field, text, arg) == [field |-> field, text |-> text, arg |-> arg]

\* The test for a missing value without the comparison with ''.
Missing_not_empty(record, field) ==
    \/ field \notin DOMAIN record
    \/ record[field].k = "none"

\* field not in record or record[field] is None or record[field] == ''
Missing(record, field) ==
    \/ field \notin DOMAIN record
    \/ record[field].k = "none"
    \/ record[field] = StrVal("")

\* The try block of validate_record: conversion to the expected type.
Coerce(type, v) ==
    CASE type = "float" -> float(v)
      [] type = "int" -> int(v)
      [] type = "str" -> Converted(StrVal(str(v)))
      [] OTHER -> Converted(v)

\* The pass of the loop without the comparison with 'max'.
FieldErrors_min_only(rules, record, field) ==
    IF rules.required /\ Missing(record, field)
    THEN {Msg(field, "is required", 0)}
    ELSE IF Missing(record, field)
    THEN {}
    ELSE LET c == Coerce(rules.type, record[field]) IN
         IF ~c.ok
         THEN {Msg(field, "must be a valid " \o rules.type, 0)}
         ELSE IF rules.type \in {"int", "float"} /\ c.v.k \in {"int", "float", "inf"}
         THEN IF rules.hasmin /\ Num(c.v) < rules.min
              THEN {Msg(field, "must be at least", rules.min)}
              ELSE {}
         ELSE {}

\* The messages one pass of the loop leaves in errors[field]: {} when none.  The
\* max message is assigned after the min message and replaces it.
FieldErrors(rules, record, field) ==
    IF rules.required /\ Missing(record, field)
    THEN {Msg(field, "is required", 0)}
    ELSE IF Missing(record, field)
    THEN {}
    ELSE LET c == Coerce(rules.type, record[field]) IN
         IF ~c.ok
         THEN {Msg(field, "must be a valid " \o rules.type, 0)}
         ELSE IF rules.type \in {"int", "float"} /\ c.v.k \in {"int", "float", "inf"}
         THEN IF rules.hasmax /\ Num(c.v) > rules.max
              THEN {Msg(field, "must be at most", rules.max)}
              ELSE IF rules.hasmin /\ Num(c.v) < rules.min
              THEN {Msg(field, "must be at least", rules.min)}
              ELSE {}
         ELSE {}

\* record[field] after the pass: the converted value is stored in place.
FieldValue(rules, record, field) ==
    IF Missing(record, field)
    THEN record[field]
    ELSE LET c == Coerce(rules.type, record[field]) IN
         IF c.ok THEN c.v ELSE record[field]

\* What validate_record gives: the exception raised (or "None"), the errors
\* mapping it returns and the record as the call leaves it.
Validated(raised, errors, record) ==
    [raised |-> raised, errors |-> errors, record |-> record]

\* The errors dict once the loop has gone over every schema field.
RecordErrors(schema, record) ==
    [f \in {g \in DOMAIN schema : FieldErrors(schema[g], record, g) # {}} |->
        CHOOSE m \in FieldErrors(schema[f], record, f) : TRUE]

\* The record once the loop has gone over every schema field.
RecordAfter(schema, record) ==
    [f \in DOMAIN record |->
        IF f \in DOMAIN schema THEN FieldValue(schema[f], record, f) ELSE record[f]]

\* The columns in the order the schema files of the model list them.
Columns ==
    <<"commodity", "age_group", "mean_consumption_chronic", "mean_consumption_acute",
      "percentile_97_chronic", "percentile_97_acute", "notes">>

\* schema.items(): the fields of a table in the order they were written.
FieldOrder(schema) == SelectSeq(Columns, LAMBDA c : c \in DOMAIN schema)

\* The passes of the loop whose conversion raises what the except clause does
\* not catch.
Aborts(schema, record) ==
    {i \in 1..Len(FieldOrder(schema)) :
        LET f == FieldOrder(schema)[i] IN
        /\ ~Missing(record, f)
        /\ Coerce(schema[f].type, record[f]).exc = "OverflowError"}

\* The record when pass k raises: the passes before it have stored their values.
RecordUpTo(schema, record, k) ==
    [f \in DOMAIN record |->
        IF \E i \in 1..(k - 1) : FieldOrder(schema)[i] = f
        THEN FieldValue(schema[f], record, f) ELSE record[f]]

\* validate_record storing str(value).strip() for a text field.
validate_record_strips(schemas, table_name, record) ==
    IF table_name \notin DOMAIN schemas
    THEN Validated("ValueError: Unknown table", <<>>, record)
    ELSE LET schema == schemas[table_name]
             after == RecordAfter(schema, record)
         IN  IF Aborts(schema, record) # {}
             THEN Validated("OverflowError", <<>>, record)
             ELSE
             Validated("None", RecordErrors(schema, record),
                 [f \in DOMAIN after |->
                     IF f \in DOMAIN schema /\ schema[f].type = "str"
                        /\ after[f] = StrVal(" ")
                     THEN StrVal("") ELSE after[f]])

validate_record(schemas, table_name, record) ==
    IF table_name \notin DOMAIN schemas
    THEN Validated("ValueError: Unknown table", <<>>, record)
    ELSE LET schema == schemas[table_name]
             stops == Aborts(schema, record)
         IN  IF stops # {}
             THEN Validated("OverflowError", <<>>,
                      RecordUpTo(schema, record,
                                 CHOOSE k \in stops : \A j \in stops : k <= j))
             ELSE Validated("None", RecordErrors(schema, record),
                            RecordAfter(schema, record))

\* A DataFrame: its column names and its rows, each a mapping column -> cell.
DataFrame(columns, rows) == [columns |-> columns, rows |-> rows]

\* [{}] * n evaluates {} once: the list holds n references to one dict.
ListRepeatShares == TRUE

\* pd.to_numeric(..., errors='coerce') on one cell: what does not parse is NaN.
to_numeric(v) == IF float(v).ok THEN float(v).v ELSE NaN

\* Series.astype(str) on one cell.
astype_str(v) == StrVal(str(v))

\* The cell of column col in row i once the column has been converted.
ConvertedCell(rules, df, col, i) ==
    CASE rules.type = "float" -> to_numeric(df.rows[i][col])
      [] rules.type = "str" -> astype_str(df.rows[i][col])
      [] OTHER -> df.rows[i][col]

\* The assignments row_errors[i][col] = message the loop body makes for one
\* schema column, in program order.
ColumnWrites(rules, df, col) ==
    LET rownums == [i \in 1..Len(df.rows) |-> i]
        cell(i) == ConvertedCell(rules, df, col, i)
        put(rows, m) == [j \in 1..Len(rows) |-> [row |-> rows[j], msg |-> m]]
    IN  IF col \notin df.columns
        THEN IF rules.required
             THEN put(SelectSeq(rownums, LAMBDA i : TRUE), Msg(col, "is required", 0))
             ELSE <<>>
        ELSE IF rules.type = "float"
        THEN (IF rules.required
              THEN put(SelectSeq(rownums, LAMBDA i : cell(i).k = "nan"),
                       Msg(col, "must be a valid number", 0))
              ELSE <<>>)
             \o (IF rules.hasmin
                 THEN put(SelectSeq(rownums, LAMBDA i : cell(i).k # "nan"
                                                  /\ Num(cell(i)) < rules.min),
                          Msg(col, "must be at least", rules.min))
                 ELSE <<>>)
             \o (IF rules.hasmax
                 THEN put(SelectSeq(rownums, LAMBDA i : cell(i).k # "nan"
                                                  /\ Num(cell(i)) > rules.max),
                          Msg(col, "must be at most", rules.max))
                 ELSE <<>>)
        ELSE IF rules.type = "str"
        THEN IF rules.required
             THEN put(SelectSeq(rownums, LAMBDA i : cell(i).s \in {"", " "}),
                      Msg(col, "cannot be empty", 0))
             ELSE <<>>
        ELSE <<>>

\* The dict row_errors[i] refers to once every assignment is made: with one
\* shared dict every assignment lands in it, whatever its row.
RowDict(schema, df, i) ==
    LET mine(c) == IF ListRepeatShares
                   THEN ColumnWrites(schema[c], df, c)
                   ELSE SelectSeq(ColumnWrites(schema[c], df, c), LAMBDA w : w.row = i)
    IN  [c \in {d \in DOMAIN schema : mine(d) # <<>>} |-> mine(c)[Len(mine(c))].msg]

\* What validate_dataframe gives: the exception raised (or "None") and the
\* triple it returns.
Checked(raised, df, row_errors, has_errors) ==
    [raised |-> raised, df |-> df, row_errors |-> row_errors, has_errors |-> has_errors]

\* validate_dataframe setting has_errors in the numeric branch only.
validate_dataframe_numeric_flag(schemas, table_name, df) ==
    IF table_name \notin DOMAIN schemas
    THEN Checked("ValueError: Unknown table", df, <<>>, FALSE)
    ELSE LET schema == schemas[table_name] IN
         IF \E c \in DOMAIN schema : schema[c].required /\ c \notin df.columns
         THEN Checked("ValueError: Missing required columns", df, <<>>, FALSE)
         ELSE Checked("None",
                  DataFrame(df.columns,
                      [i \in 1..Len(df.rows) |->
                          [c \in df.columns |->
                              IF c \in DOMAIN schema
                              THEN ConvertedCell(schema[c], df, c, i)
                              ELSE df.rows[i][c]]]),
                  [i \in 1..Len(df.rows) |-> RowDict(schema, df, i)],
                  \E c \in DOMAIN schema :
                      schema[c].type = "float" /\ ColumnWrites(schema[c], df, c) # <<>>)

\* validate_dataframe without the check of the required columns: the loop
\* writes '<col> is required' into the row mappings instead.
validate_dataframe_no_column_check(schemas, table_name, df) ==
    IF table_name \notin DOMAIN schemas
    THEN Checked("ValueError: Unknown table", df, <<>>, FALSE)
    ELSE LET schema == schemas[table_name] IN
         Checked("None",
             DataFrame(df.columns,
                 [i \in 1..Len(df.rows) |->
                     [c \in df.columns |->
                         IF c \in DOMAIN schema
                         THEN ConvertedCell(schema[c], df, c, i)
                         ELSE df.rows[i][c]]]),
             [i \in 1..Len(df.rows) |-> RowDict(schema, df, i)],
             \E c \in DOMAIN schema : ColumnWrites(schema[c], df, c) # <<>>)

validate_dataframe(schemas, table_name, df) ==
    IF table_name \notin DOMAIN schemas
    THEN Checked("ValueError: Unknown table", df, <<>>, FALSE)
    ELSE LET schema == schemas[table_name] IN
         IF \E c \in DOMAIN schema : schema[c].required /\ c \notin df.columns
         THEN Checked("ValueError: Missing required columns", df, <<>>, FALSE)
         ELSE Checked("None",
                  DataFrame(df.columns,
                      [i \in 1..Len(df.rows) |->
                          [c \in df.columns |->
                              IF c \in DOMAIN schema
                              THEN ConvertedCell(schema[c], df, c, i)
                              ELSE df.rows[i][c]]]),
                  [i \in 1..Len(df.rows) |-> RowDict(schema, df, i)],
                  \E c \in DOMAIN schema : ColumnWrites(schema[c], df, c) # <<>>)

\* Series.fillna('') on one cell: NaN and None become ''.
fillna(v) == IF v.k \in {"nan", "none"} THEN StrVal("") ELSE v

\* What clean_dataframe_for_import gives: the exception raised (or "None") and
\* the frame it returns.
Cleaned(raised, df) == [raised |-> raised, df |-> df]

clean_dataframe_for_import(schemas, table_name, df) ==
    IF table_name \notin DOMAIN schemas
    THEN Cleaned("ValueError: Unknown table", df)
    ELSE LET schema == schemas[table_name]
             valid_columns == {c \in df.columns : c \in DOMAIN schema}
         IN  Cleaned("None",
                 DataFrame(valid_columns,
                     [i \in 1..Len(df.rows) |->
                         [c \in valid_columns |->
                             CASE schema[c].type = "float" -> to_numeric(df.rows[i][c])
                               [] schema[c].type = "str" ->
                                      astype_str(fillna(df.rows[i][c]))
                               [] OTHER -> df.rows[i][c]]]))

\* ------------------------------------------------------------------ state
VARIABLES
    food_consumption,   \* the active table: id -> row
    deleted_records,    \* the tombstone log, in insertion order
    last,               \* the call that ended last, what it met and how it ended
    issued,             \* ids add_record has returned
    rt,                 \* a delete_record of an active id and the undo_delete after it
    uu,                 \* an undo_delete and the undo_delete of the same id after it
    run,                \* consecutive update_record calls on one active id
    sess,               \* each session's store call in progress
    view,               \* each session's list of the records it deleted
    ui,                 \* the handler that ran last and what it did
    val                 \* a validator call: its arguments and what it gave

vars == <<food_consumption, deleted_records, last, issued, rt, uu, run, sess,
          view, ui, val>>

\* The state of the front end: untouched by calls made on the store directly.
front == <<view, ui, val>>

\* Contents of a database file written before this process started.
InitRows == [fields : {"r1"}, version : {1}, created_at : {0}, updated_at : {0}]

\* The record a tombstone written at time t holds: an edited record (version 2)
\* for the later deletion.
InitPayload(id, t) ==
    IF t = 0
    THEN [id |-> id, fields |-> "r1", version |-> 1, created_at |-> 0, updated_at |-> 0]
    ELSE [id |-> id, fields |-> "r2", version |-> 2, created_at |-> 0, updated_at |-> 0]

InitTombstones ==
    {[original_id |-> id, table_name |-> "food_consumption",
      record_data |-> json_dumps(InitPayload(id, t)), deleted_at |-> t] :
        id \in Ids, t \in PastTimes}

\* Rows are appended with deleted_at = CURRENT_TIMESTAMP: the log is in time order
\* (rows of one instant are listed by id).
InitLogs ==
    {dr \in UNION {[1..n -> InitTombstones] : n \in 0..MaxTombstones} :
        \A i \in 1..Len(dr) : \A j \in 1..Len(dr) :
            i < j => \/ dr[i].deleted_at < dr[j].deleted_at
                     \/ /\ dr[i].deleted_at = dr[j].deleted_at
                        /\ dr[i].original_id <= dr[j].original_id}

InitTables == UNION {[S -> InitRows] : S \in SUBSET Ids}

\* What a call of import_csv_data was handed: whether the frame lacks a required
\* column, and its rows.  NoBatch for the other calls.
Batch(columns, rows) ==
    [missing |-> ~(RequiredColumns \subseteq columns), rows |-> rows]

NoBatch == Batch(RequiredColumns, <<>>)

NoCall ==
    [op |-> "none", table |-> "food_consumption", id |-> Null, data |-> "r1",
     result |-> "None", retid |-> Null, rows |-> {},
     active |-> FALSE, tombs |-> 0, fresh |-> FALSE, same |-> TRUE, gone |-> {},
     batch |-> NoBatch, new |-> {}, lost |-> {}]

NoRt == [phase |-> "none", id |-> Null, fc |-> <<>>, dr |-> <<>>,
         r1 |-> "None", r2 |-> "None"]

NoUu == [phase |-> "none", id |-> Null, fc0 |-> <<>>, dr0 |-> <<>>, r1 |-> "None",
         fc1 |-> <<>>, dr1 |-> <<>>, r2 |-> "None"]

NoRun == [id |-> Null, v0 |-> 0, k |-> 0]

\* The decoded payload a session holds between the statements of undo_delete.
NoPayload == [id |-> Null, fields |-> "r1", version |-> 0, created_at |-> 0,
              updated_at |-> 0]

\* A session between calls.  cur: the version update_record read; stale: another
\* session wrote the row after that read; payload, tombs: the tombstone
\* undo_delete read and how many the log held for the id; conc: another session
\* was inside undo_delete of the same id meanwhile.
Idle == [pc |-> "idle", op |-> "none", id |-> Null, data |-> "r1", cur |-> Null,
         result |-> "None", stale |-> FALSE, payload |-> NoPayload, tombs |-> 0,
         conc |-> FALSE]

\* No handler has run.  stored: the handler called add_record, update_record or
\* import_csv_data; validated: it had validated what it passed; invalid: the
\* validator has errors for what it passed.
NoHandler == [handler |-> "none", stored |-> FALSE, validated |-> FALSE,
              invalid |-> FALSE, result |-> "None"]

\* A session as data_display_server and data_entry_server start it: nothing
\* deleted, nothing previewed.
NoView == [deleted |-> <<>>, preview |-> <<>>, validation_errors |-> <<>>]

NoVal == [mode |-> "none", pass |-> 0, schemas |-> <<>>, table |-> "food_consumption",
          input |-> <<>>, first |-> <<>>, second |-> <<>>]

Init ==
    /\ view = [s \in Sessions |-> NoView]
    /\ ui = NoHandler
    /\ val = NoVal
    /\ food_consumption \in InitTables
    /\ deleted_records \in InitLogs
    /\ \A i \in 1..Len(deleted_records) :
           deleted_records[i].original_id \notin DOMAIN food_consumption
    /\ last = NoCall
    /\ issued = {}
    /\ rt = NoRt
    /\ uu = NoUu
    /\ run = NoRun
    /\ sess = [s \in Sessions |-> Idle]

\* The ids the store holds for 'food_consumption': rows of the active table
\* and original_id of the tombstones of the table.
Stored(fc, dr) ==
    DOMAIN fc \cup {dr[i].original_id :
                       i \in {j \in 1..Len(dr) : dr[j].table_name = "food_consumption"}}

\* The call as the caller sees it, with what it met in the store when it began,
\* whether it left both tables as they were and the ids it took out of and put
\* into the active table.
Call(op, table, id, data, o) ==
    [op |-> op, table |-> table, id |-> id, data |-> data,
     result |-> o.result, retid |-> o.retid, rows |-> o.rows,
     active |-> (table = "food_consumption" /\ id \in DOMAIN food_consumption),
     tombs |-> Cardinality(Matching(deleted_records, id, table)),
     fresh |-> (/\ o.retid # Null
                /\ o.retid \notin issued
                /\ o.retid \notin DOMAIN food_consumption
                /\ \A i \in 1..Len(deleted_records) :
                       deleted_records[i].original_id # o.retid),
     same |-> (o.fc = food_consumption /\ o.dr = deleted_records),
     gone |-> DOMAIN food_consumption \ DOMAIN o.fc,
     batch |-> NoBatch,
     new |-> DOMAIN o.fc \ DOMAIN food_consumption,
     lost |-> Stored(food_consumption, deleted_records) \ Stored(o.fc, o.dr)]

TrackRt(op, table, id, o) ==
    IF op = "delete_record" /\ table = "food_consumption"
       /\ id \in DOMAIN food_consumption
    THEN [phase |-> "deleted", id |-> id, fc |-> food_consumption,
          dr |-> deleted_records, r1 |-> o.result, r2 |-> "None"]
    ELSE IF op = "undo_delete" /\ table = "food_consumption"
            /\ rt.phase = "deleted" /\ rt.id = id
         THEN [rt EXCEPT !.phase = "undone", !.r2 = o.result]
         ELSE NoRt

TrackUu(op, table, id, o) ==
    IF op = "undo_delete" /\ table = "food_consumption"
    THEN IF uu.phase = "first" /\ uu.id = id
         THEN [uu EXCEPT !.phase = "second", !.r2 = o.result]
         ELSE [phase |-> "first", id |-> id, fc0 |-> food_consumption,
               dr0 |-> deleted_records, r1 |-> o.result,
               fc1 |-> o.fc, dr1 |-> o.dr, r2 |-> "None"]
    ELSE NoUu

TrackRun(op, table, id, o) ==
    IF op = "update_record" /\ table = "food_consumption"
       /\ id \in DOMAIN food_consumption /\ o.result = "None"
    THEN IF run.id = id
         THEN [run EXCEPT !.k = @ + 1]
         ELSE [id |-> id, v0 |-> food_consumption[id].version, k |-> 1]
    ELSE NoRun

\* A call on the store: the tables as it leaves them and the record of the call.
StoreBatchCall(op, table, id, data, batch, o) ==
    /\ food_consumption' = o.fc
    /\ deleted_records' = o.dr
    /\ last' = [Call(op, table, id, data, o) EXCEPT !.batch = batch]
    /\ issued' = IF o.retid = Null THEN issued ELSE issued \cup {o.retid}
    /\ rt' = TrackRt(op, table, id, o)
    /\ uu' = TrackUu(op, table, id, o)
    /\ run' = TrackRun(op, table, id, o)
    /\ UNCHANGED sess

StoreCall(op, table, id, data, o) ==
    StoreBatchCall(op, table, id, data, NoBatch, o)

Apply(op, table, id, data, o) ==
    /\ StoreCall(op, table, id, data, o)
    /\ UNCHANGED front

\* The handlers look up, edit, delete and restore rows of 'food_consumption' only.
GetAllRecords ==
    \E table \in {"food_consumption"} :
        \E o \in get_all_records(food_consumption, deleted_records, table) :
            Apply("get_all_records", table, Null, "r1", o)

GetRecordById ==
    \E table \in {"food_consumption"}, id \in Ids :
        \E o \in get_record_by_id(food_consumption, deleted_records, table, id) :
            Apply("get_record_by_id", table, id, "r1", o)

AddRecord ==
    \E table \in Tables, data \in FieldVals :
        \E o \in add_record(food_consumption, deleted_records, Now, table, data) :
            Apply("add_record", table, Null, data, o)

UpdateRecord ==
    \E table \in {"food_consumption"}, id \in Ids, data \in FieldVals :
        /\ id \in DOMAIN food_consumption => food_consumption[id].version < MaxVersion
        /\ \E o \in update_record(food_consumption, deleted_records, Now, table, id, data) :
               Apply("update_record", table, id, data, o)

DeleteRecord ==
    \E table \in {"food_consumption"}, id \in Ids :
        \E o \in delete_record(food_consumption, deleted_records, Now, table, id) :
            Apply("delete_record", table, id, "r1", o)

UndoDelete ==
    \E table \in {"food_consumption"}, id \in Ids :
        \E o \in undo_delete(food_consumption, deleted_records, id, table) :
            Apply("undo_delete", table, id, "r1", o)

\* DataFrames of up to MaxRows rows, with both required columns or without
\* 'age_group'.
ImportCsvData ==
    \E table \in Tables, columns \in {RequiredColumns, {"commodity"}},
       rows \in UNION {[1..n -> FieldVals] : n \in 0..MaxRows} :
        \E o \in import_csv_data(food_consumption, deleted_records, Now, table,
                                  columns, rows) :
            /\ StoreBatchCall("import_csv_data", table, Null, "r1",
                              Batch(columns, rows), o)
            /\ UNCHANGED front

Next ==
    \/ GetAllRecords
    \/ ImportCsvData
    \/ GetRecordById
    \/ AddRecord
    \/ UpdateRecord
    \/ DeleteRecord
    \/ UndoDelete

Spec == Init /\ [][Next]_vars

\* ------------------------------------------------- sessions side by side
\* save_edited_record of two sessions against one store: update_record's SELECT
\* and its UPDATE are two statements, and another session's statement may fall
\* between them.
UpdateSelect(s) ==
    /\ sess[s].pc = "idle"
    /\ \E id \in Ids, data \in FieldVals :
        /\ id \in DOMAIN food_consumption => food_consumption[id].version < MaxVersion
        /\ IF SelectVersion(food_consumption, id) = {}
           THEN sess' = [sess EXCEPT ![s] =
                    [Idle EXCEPT !.op = "update_record", !.id = id, !.data = data,
                                 !.result = "TypeError"]]
           ELSE \E v \in SelectVersion(food_consumption, id) :
                    sess' = [sess EXCEPT ![s] =
                        [Idle EXCEPT !.pc = "upd_write", !.op = "update_record",
                                     !.id = id, !.data = data, !.cur = v,
                                     !.result = "pending"]]
    /\ UNCHANGED <<food_consumption, deleted_records, last, issued, rt, uu, run, front>>

UpdateWrite(s) ==
    /\ sess[s].pc = "upd_write"
    /\ food_consumption' =
           UpdateRow(food_consumption, sess[s].id, sess[s].data, sess[s].cur + 1, Now)
    /\ sess' = [t \in Sessions |->
                   IF t = s
                   THEN [sess[s] EXCEPT !.pc = "idle", !.result = "None"]
                   ELSE IF sess[t].pc = "upd_write" /\ sess[t].id = sess[s].id
                        THEN [sess[t] EXCEPT !.stale = TRUE]
                        ELSE sess[t]]
    /\ UNCHANGED <<deleted_records, last, issued, rt, uu, run, front>>

\* undo_delete of two sessions against one store: its SELECT of the latest
\* tombstone, its INSERT and its DELETE are three statements.
InUndo(t, id) == sess[t].pc \in {"undo_insert", "undo_delete"} /\ sess[t].id = id

UndoSelect(s) ==
    /\ sess[s].pc = "idle"
    /\ \E id \in Ids :
        LET n == Cardinality(Matching(deleted_records, id, "food_consumption"))
            c == \E t \in Sessions \ {s} : InUndo(t, id)
        IN  IF Latest(deleted_records, id, "food_consumption") = {}
            THEN sess' = [sess EXCEPT ![s] =
                     [Idle EXCEPT !.op = "undo_delete", !.id = id, !.result = "False",
                                  !.tombs = n]]
            ELSE \E i \in Latest(deleted_records, id, "food_consumption") :
                     sess' = [t \in Sessions |->
                         IF t = s
                         THEN [Idle EXCEPT !.pc = "undo_insert", !.op = "undo_delete",
                                   !.id = id, !.result = "pending", !.tombs = n,
                                   !.conc = c,
                                   !.payload = json_loads(deleted_records[i].record_data)]
                         ELSE IF InUndo(t, id)
                              THEN [sess[t] EXCEPT !.conc = TRUE]
                              ELSE sess[t]]
    /\ UNCHANGED <<food_consumption, deleted_records, last, issued, rt, uu, run, front>>

UndoInsert(s) ==
    /\ sess[s].pc = "undo_insert"
    /\ IF InsertOk(food_consumption, sess[s].payload.id)
       THEN /\ food_consumption' = InsertRow(food_consumption, sess[s].payload.id,
                                              PayloadRow(sess[s].payload))
            /\ sess' = [sess EXCEPT ![s].pc = "undo_delete"]
       ELSE /\ food_consumption' = food_consumption
            /\ sess' = [sess EXCEPT ![s].pc = "idle",
                                    ![s].result = "ConstraintException"]
    /\ UNCHANGED <<deleted_records, last, issued, rt, uu, run, front>>

UndoRemove(s) ==
    /\ sess[s].pc = "undo_delete"
    /\ IF DeleteAcceptsOrderByLimit
          /\ Latest(deleted_records, sess[s].id, "food_consumption") # {}
       THEN \E j \in Latest(deleted_records, sess[s].id, "food_consumption") :
                /\ deleted_records' = RemoveAt(deleted_records, j)
                /\ sess' = [sess EXCEPT ![s].pc = "idle", ![s].result = "True"]
       ELSE /\ deleted_records' = deleted_records
            /\ sess' = [sess EXCEPT ![s].pc = "idle",
                            ![s].result = IF DeleteAcceptsOrderByLimit
                                          THEN "True" ELSE "ParserException"]
    /\ UNCHANGED <<food_consumption, last, issued, rt, uu, run, front>>

\* delete_record of a session against one store, statement by statement: the
\* SELECT of the record (and the dict built from it, where the call ends when
\* the row has no keys()), the INSERT of the tombstone, the DELETE of the row.
\* stale: the row the DELETE removed was not the row the tombstone holds.
DeleteStatement(s) ==
    /\ sess[s].pc \in {"idle", "del_insert", "del_remove"}
    /\ IF sess[s].pc = "idle"
       THEN /\ \E id \in Ids :
                  IF SelectById(food_consumption, id) = {}
                  THEN sess' = [sess EXCEPT ![s] =
                           [Idle EXCEPT !.op = "delete_record", !.id = id,
                                        !.result = "False"]]
                  ELSE \E rec \in SelectById(food_consumption, id) :
                           sess' = [sess EXCEPT ![s] =
                               [Idle EXCEPT !.op = "delete_record", !.id = id,
                                            !.payload = rec,
                                            !.pc = IF RowHasKeys /\ JsonSerializable(rec)
                                                   THEN "del_insert" ELSE "idle",
                                            !.result = IF ~RowHasKeys THEN "AttributeError"
                                                       ELSE IF ~JsonSerializable(rec)
                                                       THEN "TypeError" ELSE "pending"]]
            /\ UNCHANGED <<food_consumption, deleted_records>>
       ELSE IF sess[s].pc = "del_insert"
       THEN /\ deleted_records' =
                   Append(deleted_records,
                          [original_id |-> sess[s].id, table_name |-> "food_consumption",
                           record_data |-> json_dumps(sess[s].payload),
                           deleted_at |-> Now])
            /\ sess' = [sess EXCEPT ![s].pc = "del_remove"]
            /\ UNCHANGED food_consumption
       ELSE /\ food_consumption' = DeleteRow(food_consumption, sess[s].id)
            /\ sess' = [sess EXCEPT ![s].pc = "idle", ![s].result = "True",
                            ![s].stale = SelectById(food_consumption, sess[s].id)
                                             # {sess[s].payload}]
            /\ UNCHANGED deleted_records
    /\ UNCHANGED <<last, issued, rt, uu, run, front>>

NextConc ==
    \/ \E s \in Sessions : DeleteStatement(s)
    \/ \E s \in Sessions : UpdateSelect(s)
    \/ \E s \in Sessions : UpdateWrite(s)
    \/ \E s \in Sessions : UndoSelect(s)
    \/ \E s \in Sessions : UndoInsert(s)
    \/ \E s \in Sessions : UndoRemove(s)

SpecConc == Init /\ [][NextConc]_vars

\* ------------------------------------------------- the validator on its own
\* Schemas a schema file can hold for the table: a text column and a numeric
\* column with min 0, each required or not, the numeric one float or integer,
\* with or without max 4 (_load_schema keeps 'required', 'min', 'max' as written).
SchemaOf(req1, type2, req2, hasmax) ==
    "food_consumption" :>
        [commodity |-> Rule("str", req1, FALSE, 0, FALSE, 0),
         mean_consumption_chronic |-> Rule(type2, req2, TRUE, 0, hasmax, 40)]

Schemas ==
    {SchemaOf(req1, type2, req2, hasmax) :
        req1 \in BOOLEAN, type2 \in {"float", "int"}, req2 \in BOOLEAN,
        hasmax \in BOOLEAN}

\* Field values of a record handed to validate_record; a field may be left out.
RecordCells ==
    [commodity : {NoneVal, StrVal(""), StrVal(" "), StrVal("Almonds"), IntVal(3)},
     mean_consumption_chronic :
         {NoneVal, StrVal(""), StrVal("3"), StrVal("3.7"), StrVal("abc"),
          IntVal(-5), IntVal(3), IntVal(7), FloatVal(37), Inf}]

Records ==
    RecordCells
    \cup {[commodity |-> r.commodity] : r \in RecordCells}
    \cup {[mean_consumption_chronic |-> r.mean_consumption_chronic] : r \in RecordCells}

\* Cells of a parsed CSV: text, numbers, NaN for an empty cell.
FrameCells ==
    [commodity : {StrVal(""), StrVal(" "), StrVal("Almonds"), NaN},
     mean_consumption_chronic : {IntVal(-5), IntVal(3), IntVal(7), StrVal("abc"), NaN}]

\* Rows of a CSV with both columns, with the text column alone, and with a
\* column the schema does not know.
FrameRows ==
    FrameCells \cup {[commodity |-> r.commodity] : r \in FrameCells}
    \cup {[commodity |-> StrVal("Almonds"), mean_consumption_chronic |-> IntVal(3),
           source |-> StrVal("Almonds")]}

\* DataFrames of up to MaxRows rows over one column set.
Frames ==
    {DataFrame(DOMAIN rows[1], rows) :
        rows \in {r \in UNION {[1..n -> FrameRows] : n \in 1..MaxRows} :
                     \A i \in 1..Len(r) : DOMAIN r[i] = DOMAIN r[1]}}
    \cup {DataFrame({"commodity", "mean_consumption_chronic"}, <<>>)}

\* The 'type' a schema file gives a field: the names of the model, and a number.
RawTypes == {StrVal(n) : n \in DOMAIN Lower} \cup {IntVal(3)}

\* Schema files for the table: a field of any of these types, with or without
\* the key, next to a float field with min 0.
RawSchemas ==
    {"food_consumption" :>
         [commodity |-> RawRule(hastype, type, TRUE, FALSE, 0, FALSE, 0),
          mean_consumption_chronic |->
              RawRule(TRUE, StrVal("float"), FALSE, TRUE, 0, FALSE, 0)] :
        hastype \in BOOLEAN, type \in RawTypes}

\* The paths SchemaValidator can be given and what is found there.
Sources ==
    [exists : BOOLEAN, ext : {".yaml", ".yml", ".toml", ".json"},
     kind : {"mapping"}, raw : RawSchemas]
    \cup [exists : BOOLEAN, ext : {".yaml", ".yml", ".toml", ".json"},
          kind : {"unreadable", "syntax", "scalar"},
          raw : {"food_consumption" :>
                     [commodity |-> RawRule(FALSE, StrVal("str"), TRUE, FALSE, 0, FALSE, 0),
                      mean_consumption_chronic |->
                          RawRule(TRUE, StrVal("float"), FALSE, TRUE, 0, FALSE, 0)]}]

InitVal ==
    /\ food_consumption = <<>>
    /\ deleted_records = <<>>
    /\ last = NoCall
    /\ issued = {}
    /\ rt = NoRt
    /\ uu = NoUu
    /\ run = NoRun
    /\ sess = [s \in Sessions |-> Idle]
    /\ view = [s \in Sessions |-> NoView]
    /\ ui = NoHandler
    /\ \/ \E schema_file \in Sources :
              val = [NoVal EXCEPT !.mode = "load", !.input = schema_file]
       \/ \E schemas \in Schemas, table \in Tables :
           \/ \E record \in Records :
                  val = [NoVal EXCEPT !.mode = "record", !.schemas = schemas,
                                      !.table = table, !.input = record]
           \/ \E df \in Frames :
                  val = [NoVal EXCEPT !.mode = "frame", !.schemas = schemas,
                                      !.table = table, !.input = df]

\* validate_record on a record, and again on the record the first call left.
ValidateRecord ==
    /\ val.mode = "record"
    /\ val.pass < 2
    /\ val' = IF val.pass = 0
              THEN [val EXCEPT !.pass = 1,
                        !.first = validate_record(val.schemas, val.table, val.input)]
              ELSE [val EXCEPT !.pass = 2,
                        !.second = validate_record(val.schemas, val.table,
                                                   val.first.record)]
    /\ UNCHANGED <<food_consumption, deleted_records, last, issued, rt, uu, run,
                   sess, view, ui>>

ValidateDataframe ==
    /\ val.mode = "frame"
    /\ val.pass = 0
    /\ val' = [val EXCEPT !.pass = 1,
                   !.first = validate_dataframe(val.schemas, val.table, val.input)]
    /\ UNCHANGED <<food_consumption, deleted_records, last, issued, rt, uu, run,
                   sess, view, ui>>

\* clean_dataframe_for_import on a parsed CSV as it is, and on the frame
\* validate_dataframe returned for it (the preview the import handler cleans).
CleanDataframe ==
    /\ val.mode = "frame"
    /\ \/ /\ val.pass = 0
          /\ val' = [val EXCEPT !.mode = "clean", !.pass = 1,
                         !.first = clean_dataframe_for_import(val.schemas, val.table,
                                                              val.input)]
       \/ /\ val.pass = 1
          /\ val.first.raised = "None"
          /\ val' = [val EXCEPT !.pass = 2,
                         !.second = clean_dataframe_for_import(val.schemas, val.table,
                                                               val.first.df)]
    /\ UNCHANGED <<food_consumption, deleted_records, last, issued, rt, uu, run,
                   sess, view, ui>>

\* SchemaValidator(schema_file): self.schemas = self._load_schema(schema_file)
LoadSchema ==
    /\ val.mode = "load"
    /\ val.pass = 0
    /\ val' = [val EXCEPT !.pass = 1, !.first = _load_schema(val.input)]
    /\ UNCHANGED <<food_consumption, deleted_records, last, issued, rt, uu, run,
                   sess, view, ui>>

NextVal ==
    \/ ValidateRecord
    \/ ValidateDataframe
    \/ CleanDataframe
    \/ LoadSchema

SpecVal == InitVal /\ [][NextVal]_vars

\* ------------------------------------------------------------ the handlers
\* The schema SchemaValidator() holds: the default one, cut to a text column and
\* a numeric column.
LoadedSchema == SchemaOf(TRUE, "float", FALSE, FALSE)

\* What a form or a CSV row holds for each assignment of the columns: the two
\* the store keeps apart and one the schema rejects.
FormColumns ==
    ("r1" :> [commodity |-> StrVal("Almonds"), mean_consumption_chronic |-> NoneVal])
    @@ ("r2" :> [commodity |-> StrVal("Almonds"),
                 mean_consumption_chronic |-> FloatVal(30)])
    @@ ("e1" :> [commodity |-> StrVal(""), mean_consumption_chronic |-> IntVal(-5)])

Forms == DOMAIN FormColumns

\* The DataFrame pd.read_csv gives for rows of these assignments.
FrameOf(rows) ==
    DataFrame({"commodity", "mean_consumption_chronic"},
              [i \in 1..Len(rows) |-> FormColumns[rows[i]]])

\* The CSV contents previewed: up to MaxRows rows, each one the schema accepts
\* or one it rejects.
Batches == UNION {[1..n -> {"r1", "e1"}] : n \in 1..MaxRows}

\* What the session's validator gives for each of them.
PreviewOutcome ==
    [rows \in Batches |->
        validate_dataframe(LoadedSchema, "food_consumption", FrameOf(rows))]

Handled(handler, stored, validated, invalid, result) ==
    [handler |-> handler, stored |-> stored, validated |-> validated,
     invalid |-> invalid, result |-> result]

store == <<food_consumption, deleted_records, last, issued, rt, uu, run>>

\* handle_add_record: validate the form, stop on errors, else add_record inside
\* try/except.
HandleAddRecord ==
    \E form \in Forms :
        LET v == validate_record(LoadedSchema, "food_consumption", FormColumns[form]) IN
        /\ IF v.errors # <<>>
           THEN /\ ui' = Handled("handle_add_record", FALSE, TRUE, TRUE, "None")
                /\ UNCHANGED store
                /\ UNCHANGED sess
           ELSE \E o \in add_record(food_consumption, deleted_records, Now,
                                    "food_consumption", form) :
                    /\ StoreCall("add_record", "food_consumption", Null, form, o)
                    /\ ui' = Handled("handle_add_record", TRUE, TRUE, FALSE, o.result)
        /\ UNCHANGED <<view, val>>

\* save_edited_record: the edited form goes to update_record as entered.
SaveEditedRecord ==
    \E id \in Ids, form \in Forms :
        /\ id \in DOMAIN food_consumption => food_consumption[id].version < MaxVersion
        /\ \E o \in update_record(food_consumption, deleted_records, Now,
                                   "food_consumption", id, form) :
               /\ StoreCall("update_record", "food_consumption", id, form, o)
               /\ ui' = Handled("save_edited_record", TRUE, FALSE,
                          validate_record(LoadedSchema, "food_consumption",
                                          FormColumns[form]).errors # <<>>,
                          o.result)
        /\ UNCHANGED <<view, val>>

\* preview_csv_data: a CSV that does not parse empties the preview; one that
\* validate_dataframe accepts replaces the preview and the row errors.
PreviewCsvData(s) ==
    /\ \/ view' = [view EXCEPT ![s].preview = <<>>]
       \/ \E rows \in Batches :
              LET c == PreviewOutcome[rows]
              IN  view' = IF c.raised # "None" THEN view
                          ELSE [view EXCEPT ![s].preview = rows,
                                            ![s].validation_errors = c.row_errors]
    /\ ui' = Handled("preview_csv_data", FALSE, TRUE, FALSE, "None")
    /\ UNCHANGED store
    /\ UNCHANGED <<sess, val>>

\* import_csv_data of data_entry.py: refuse an empty preview and a preview with
\* row errors, else hand the cleaned preview to the store inside try/except.
\* A previewed frame has the schema's required columns.
HandleImportCsv(s) ==
    /\ IF view[s].preview = <<>>
       THEN /\ ui' = Handled("import_csv_data", FALSE, FALSE, FALSE, "None")
            /\ view' = view
            /\ UNCHANGED store
            /\ UNCHANGED sess
       ELSE IF \E i \in 1..Len(view[s].validation_errors) :
                   view[s].validation_errors[i] # <<>>
       THEN /\ ui' = Handled("import_csv_data", FALSE, TRUE, TRUE, "None")
            /\ view' = view
            /\ UNCHANGED store
            /\ UNCHANGED sess
       ELSE \E o \in import_csv_data(food_consumption, deleted_records, Now,
                                     "food_consumption", RequiredColumns,
                                     view[s].preview) :
                /\ StoreBatchCall("import_csv_data", "food_consumption", Null, "r1",
                                  Batch(RequiredColumns, view[s].preview), o)
                /\ ui' = Handled("import_csv_data", TRUE, TRUE,
                           PreviewOutcome[view[s].preview].has_errors, o.result)
                /\ view' = IF o.result = "True"
                           THEN [view EXCEPT ![s].preview = <<>>]
                           ELSE view
    /\ UNCHANGED val

\* handle_delete_record: look the record up, delete it, and on success append
\* it to the session's list (reading the row by column name).
HandleDeleteRecord(s) ==
    \E id \in Ids :
        \E o \in delete_record(food_consumption, deleted_records, Now,
                                "food_consumption", id) :
            /\ StoreCall("delete_record", "food_consumption", id, "r1", o)
            /\ IF o.result = "True" /\ RowHasKeys
               THEN view' = [view EXCEPT ![s].deleted = Append(@, [id |-> id])]
               ELSE view' = view
            /\ ui' = Handled("handle_delete_record", FALSE, FALSE, FALSE,
                             IF o.result = "True" /\ ~RowHasKeys
                             THEN "TypeError" ELSE o.result)
            /\ UNCHANGED val

\* handle_undo_delete: undo the last entry of the session's list, if any, and
\* drop it on success.
HandleUndoDelete(s) ==
    LET deleted == view[s].deleted IN
    /\ IF deleted # <<>>
       THEN \E o \in undo_delete(food_consumption, deleted_records,
                                 deleted[Len(deleted)].id, "food_consumption") :
                /\ StoreCall("undo_delete", "food_consumption",
                             deleted[Len(deleted)].id, "r1", o)
                /\ view' = IF o.result = "True"
                           THEN [view EXCEPT ![s].deleted =
                                     SubSeq(deleted, 1, Len(deleted) - 1)]
                           ELSE view
                /\ ui' = Handled("handle_undo_delete", FALSE, FALSE, FALSE, o.result)
       ELSE /\ ui' = Handled("handle_undo_delete", FALSE, FALSE, FALSE, "None")
            /\ view' = view
            /\ UNCHANGED store
            /\ UNCHANGED sess
    /\ UNCHANGED val

NextUi ==
    \/ HandleAddRecord
    \/ SaveEditedRecord
    \/ \E s \in Sessions : PreviewCsvData(s)
    \/ \E s \in Sessions : HandleImportCsv(s)
    \/ \E s \in Sessions : HandleDeleteRecord(s)
    \/ \E s \in Sessions : HandleUndoDelete(s)

SpecUi == Init /\ [][NextUi]_vars

\* ================================================================ claims
\* C1: two sessions that both read version N of the same id before either
\* writes: exactly one update succeeds and the other ends in VersionConflict;
\* never do both succeed leaving the record at version N+1.
C1_ExactlyOneUpdateWins ==
    /\ \A s \in Sessions :
           (sess[s].op = "update_record" /\ sess[s].pc = "idle" /\ sess[s].stale)
               => sess[s].result = "VersionConflict"
    /\ \A s \in Sessions : \A t \in Sessions \ {s} :
           (/\ sess[s].op = "update_record" /\ sess[s].pc = "idle"
            /\ sess[t].op = "update_record" /\ sess[t].pc = "idle"
            /\ sess[s].id = sess[t].id /\ sess[s].cur = sess[t].cur
            /\ sess[s].cur # Null /\ sess[t].stale)
               => ~(/\ sess[s].result = "None" /\ sess[t].result = "None"
                    /\ sess[s].id \in DOMAIN food_consumption
                    /\ food_consumption[sess[s].id].version = sess[s].cur + 1)

TwoDeletions(dr, id) ==
    {<<i, j>> \in Matching(dr, id, "food_consumption")
                  \X Matching(dr, id, "food_consumption") :
        /\ Cardinality(Matching(dr, id, "food_consumption")) = 2
        /\ dr[i].deleted_at < dr[j].deleted_at}

\* C3: an id deleted twice and then undone twice: the first undo_delete restores
\* the record of the later deletion, the second that of the earlier deletion.
C3_DoubleUndoIsLifo ==
    (uu.phase = "second" /\ uu.id \notin DOMAIN uu.fc0) =>
        \A d \in TwoDeletions(uu.dr0, uu.id) :
            /\ uu.r1 = "True"
            /\ uu.id \in DOMAIN uu.fc1
            /\ uu.fc1[uu.id] = PayloadRow(json_loads(uu.dr0[d[2]].record_data))
            /\ uu.r2 = "True"
            /\ uu.id \in DOMAIN food_consumption
            /\ food_consumption[uu.id] = PayloadRow(json_loads(uu.dr0[d[1]].record_data))

C5_UpdateMissingIsNotFound ==
    [][(/\ last'.op = "update_record"
        /\ last'.table = "food_consumption"
        /\ last'.id \notin DOMAIN food_consumption)
          => (/\ last'.result = "TypeError"
              /\ food_consumption' = food_consumption
              /\ deleted_records' = deleted_records)]_vars

\* An update_record was refused for an id that is tombstoned and not active.
C5_Witness ==
    /\ last.op = "update_record"
    /\ last.table = "food_consumption"
    /\ ~last.active
    /\ last.tombs > 0
    /\ last.result = "TypeError"

\* One update_record call on an active id: version + 1, the supplied field
\* values, the same id, nothing else touched.
C6_Step ==
    (/\ last'.op = "update_record"
     /\ last'.table = "food_consumption"
     /\ last'.id \in DOMAIN food_consumption)
       => (/\ last'.result = "None"
           /\ DOMAIN food_consumption' = DOMAIN food_consumption
           /\ food_consumption'[last'.id].version =
                  food_consumption[last'.id].version + 1
           /\ food_consumption'[last'.id].fields = last'.data
           /\ food_consumption'[last'.id].created_at =
                  food_consumption[last'.id].created_at
           /\ \A i \in DOMAIN food_consumption \ {last'.id} :
                  food_consumption'[i] = food_consumption[i]
           /\ deleted_records' = deleted_records)

\* k consecutive updates of an id leave its version k above where it started.
C6_Run ==
    run.k > 0 =>
        /\ run.id \in DOMAIN food_consumption
        /\ food_consumption[run.id].version = run.v0 + run.k

\* C6: a successful update_record of an active record at version N leaves it at
\* version exactly N+1 with the same id and the supplied field values, and k
\* such updates in a row add exactly k.
C6_UpdateBumpsVersionByOne == [][C6_Step]_vars /\ []C6_Run

\* Two updates in a row have been applied to one record.
C6_Witness == run.k = 2 /\ last.op = "update_record" /\ last.result = "None"

\* C7: add_record on the store's table returns a usable id, and
\* get_record_by_id of it returns the supplied field values at version 1.
C7_AddGetRoundTrip ==
    (last.op = "add_record" /\ last.table = "food_consumption") =>
        /\ last.result = "id"
        /\ last.retid # Null
        /\ \A o \in get_record_by_id(food_consumption, deleted_records,
                                     "food_consumption", last.retid) :
               /\ o.result = "row"
               /\ \A r \in o.rows : r.fields = last.data /\ r.version = 1

\* C8: an undo_delete that finds a tombstone and restores its record returns
\* true having removed exactly that one tombstone, the latest for the id, and
\* no other.
C8_UndoConsumesLatestTombstone ==
    (/\ uu.phase = "first"
     /\ Matching(uu.dr0, uu.id, "food_consumption") # {}
     /\ uu.id \notin DOMAIN uu.fc0)
       => /\ uu.r1 = "True"
          /\ \E i \in Latest(uu.dr0, uu.id, "food_consumption") :
                 /\ deleted_records = RemoveAt(uu.dr0, i)
                 /\ uu.id \in DOMAIN food_consumption
                 /\ food_consumption[uu.id] =
                        PayloadRow(json_loads(uu.dr0[i].record_data))

\* undo_delete with no tombstone for (id, table) returns false and changes nothing.
C9_NoTombstoneReturnsFalse ==
    /\ (last.op = "undo_delete" /\ last.tombs = 0) => last.result = "False"
    /\ (uu.phase = "first" /\ Matching(uu.dr0, uu.id, "food_consumption") = {})
           => (uu.fc1 = uu.fc0 /\ uu.dr1 = uu.dr0)

\* C9: undo_delete with no tombstone for (id, table) returns false and changes
\* nothing; in particular the undo_delete that follows the undo of an id's only
\* tombstone returns false and adds no second record.
C9_UndoWithoutTombstone ==
    /\ C9_NoTombstoneReturnsFalse
    /\ (/\ uu.phase = "second"
        /\ Cardinality(Matching(uu.dr0, uu.id, "food_consumption")) = 1
        /\ uu.id \notin DOMAIN uu.fc0)
          => (/\ uu.r2 = "False"
              /\ food_consumption = uu.fc1
              /\ deleted_records = uu.dr1)

\* C10: delete_record of an active id returns true, appends exactly one
\* tombstone carrying the record's id, version, table name and field values,
\* removes the record, and leaves the other records and tombstones alone.
C10_DeleteWritesTombstone ==
    rt.phase = "deleted" =>
        /\ rt.r1 = "True"
        /\ food_consumption = DeleteRow(rt.fc, rt.id)
        /\ Len(deleted_records) = Len(rt.dr) + 1
        /\ SubSeq(deleted_records, 1, Len(rt.dr)) = rt.dr
        /\ LET t == deleted_records[Len(deleted_records)]
               p == json_loads(t.record_data)
           IN  /\ t.original_id = rt.id
               /\ t.table_name = "food_consumption"
               /\ p.id = rt.id
               /\ p.version = rt.fc[rt.id].version
               /\ p.fields = rt.fc[rt.id].fields

\* C11: delete_record of an id that is not in the active table returns false
\* and changes neither the active table nor the tombstone log.
C11_DeleteMissingReturnsFalse ==
    (last.op = "delete_record" /\ last.table = "food_consumption" /\ ~last.active)
        => (last.result = "False" /\ last.same)

\* A delete_record was refused for an id that was deleted before and is not
\* active.
C11_Witness ==
    /\ last.op = "delete_record"
    /\ ~last.active
    /\ last.tombs > 0
    /\ last.result = "False"

\* C12: a record leaves the active table only by a successful delete_record of
\* its id: no call of add_record, get_record_by_id, get_all_records,
\* update_record, undo_delete or import_csv_data takes an active id out.
C12_OnlyDeleteRemoves ==
    /\ last.gone # {} =>
           (last.op = "delete_record" /\ last.result = "True" /\ last.gone = {last.id})
    /\ last.op \in {"add_record", "get_record_by_id", "get_all_records",
                     "update_record", "undo_delete", "import_csv_data"}
           => last.gone = {}

\* An undo_delete has put a record back and every id is active.
C12_Witness ==
    /\ last.op = "undo_delete"
    /\ ~last.active
    /\ last.result = "ParserException"
    /\ DOMAIN food_consumption = Ids

\* C13: the version of a record never decreases, whatever calls the sessions
\* interleave, and a delete_record followed by undo_delete brings the record
\* back at the version it had when deleted.
C13_VersionMonotonic ==
    /\ [][\A id \in DOMAIN food_consumption \cap DOMAIN food_consumption' :
            food_consumption'[id].version >= food_consumption[id].version]_vars
    /\ [](rt.phase = "undone" =>
            /\ rt.r1 = "True"
            /\ rt.r2 = "True"
            /\ rt.id \in DOMAIN food_consumption
            /\ food_consumption[rt.id].version = rt.fc[rt.id].version)

\* C14: two sessions inside undo_delete of one id at the same time, the log
\* holding a single tombstone for it: exactly one of them restores the record
\* (true), the other gets false, the id is active once and the tombstone is gone.
C14_ConcurrentUndoOnce ==
    \A s \in Sessions : \A t \in Sessions \ {s} :
        (/\ sess[s].op = "undo_delete" /\ sess[s].pc = "idle"
         /\ sess[t].op = "undo_delete" /\ sess[t].pc = "idle"
         /\ sess[s].id = sess[t].id
         /\ sess[s].conc /\ sess[t].conc
         /\ sess[s].tombs = 1 /\ sess[t].tombs = 1)
            => /\ {sess[s].result, sess[t].result} = {"True", "False"}
               /\ sess[s].id \in DOMAIN food_consumption
               /\ Matching(deleted_records, sess[s].id, "food_consumption") = {}

\* A batch validate_dataframe accepted: it has returned its triple.
Accepted == val.mode = "frame" /\ val.pass = 1 /\ val.first.raised = "None"

\* The schema columns for which row i of the batch holds an invalid value: the
\* rows the loop body's tests single out.
Offending(i) ==
    {c \in DOMAIN val.schemas[val.table] :
        \E j \in 1..Len(ColumnWrites(val.schemas[val.table][c], val.input, c)) :
            ColumnWrites(val.schemas[val.table][c], val.input, c)[j].row = i}

\* C17: validate_dataframe returns one error mapping per row; the mapping of a
\* row names exactly the fields that are invalid in that row, so the mapping of
\* a row with no invalid value is empty.
C17_ErrorsLocalizedToRow ==
    Accepted =>
        /\ Len(val.first.row_errors) = Len(val.input.rows)
        /\ \A i \in 1..Len(val.input.rows) :
               DOMAIN val.first.row_errors[i] = Offending(i)

\* C18: for every accepted batch row_errors has one mapping per input row and
\* has_errors is true exactly when one of them is non-empty.
C18_HasErrorsIffSomeRow ==
    Accepted =>
        /\ Len(val.first.row_errors) = Len(val.input.rows)
        /\ val.first.has_errors <=>
               \E i \in 1..Len(val.first.row_errors) : val.first.row_errors[i] # <<>>

\* A batch of MaxRows rows was accepted with an empty required text cell and no
\* invalid number.
C18_Witness ==
    /\ Accepted
    /\ Len(val.input.rows) = MaxRows
    /\ val.first.has_errors
    /\ \A i \in 1..Len(val.first.row_errors) :
           DOMAIN val.first.row_errors[i] = {"commodity"}

\* The message the rules call for at row i of a column present in the batch
\* ({} when none): out of range, not a number, empty.
Expected(rules, col, i) ==
    LET v == to_numeric(val.input.rows[i][col]) IN
    IF rules.type \in {"float", "int"}
    THEN IF v.k # "nan" /\ rules.hasmax /\ Num(v) > rules.max
         THEN {Msg(col, "must be at most", rules.max)}
         ELSE IF v.k # "nan" /\ rules.hasmin /\ Num(v) < rules.min
         THEN {Msg(col, "must be at least", rules.min)}
         ELSE IF v.k = "nan" /\ rules.required
         THEN {Msg(col, "must be a valid number", 0)}
         ELSE {}
    ELSE IF rules.type = "str" /\ rules.required
            /\ str(val.input.rows[i][col]) \in {"", " "}
    THEN {Msg(col, "cannot be empty", 0)}
    ELSE {}

\* C19: in an accepted batch every value of a numeric column (float or integer)
\* outside min..max, every value of a required numeric column that is not a
\* number and every empty value of a required text column has its message in
\* the mapping of its row; the row {commodity: "", mean_consumption_chronic: -5}
\* gets exactly the two messages.
C19_PerValueMessages ==
    Accepted =>
        /\ \A i \in 1..Len(val.input.rows) :
               \A c \in DOMAIN val.schemas[val.table] \cap val.input.columns :
                   \A m \in Expected(val.schemas[val.table][c], c, i) :
                       /\ c \in DOMAIN val.first.row_errors[i]
                       /\ val.first.row_errors[i][c] = m
        /\ (/\ val.schemas = SchemaOf(TRUE, "float", TRUE, FALSE)
            /\ val.input.rows = <<[commodity |-> StrVal(""),
                                   mean_consumption_chronic |-> IntVal(-5)]>>)
              => val.first.row_errors =
                     <<[commodity |-> Msg("commodity", "cannot be empty", 0),
                        mean_consumption_chronic |->
                            Msg("mean_consumption_chronic", "must be at least", 0)]>>

\* C20: when validate_record returns no error for a record, validate_record on
\* the record it left returns no error and leaves every field as it is.
C20_ValidationIdempotent ==
    (/\ val.mode = "record" /\ val.pass = 2
     /\ val.first.raised = "None" /\ val.first.errors = <<>>)
        => /\ val.second.raised = "None"
           /\ val.second.errors = <<>>
           /\ val.second.record = val.first.record

\* A record passed, converted in both fields, and was validated again.
C20_Witness ==
    /\ val.mode = "record" /\ val.pass = 2
    /\ val.first.errors = <<>>
    /\ DOMAIN val.input = {"commodity", "mean_consumption_chronic"}
    /\ val.first.record.commodity # val.input.commodity
    /\ val.first.record.mean_consumption_chronic # val.input.mean_consumption_chronic

\* The tombstones of a table with the greatest deleted_at.
LatestOfTable(table) ==
    {i \in 1..Len(deleted_records) :
        /\ deleted_records[i].table_name = table
        /\ \A j \in 1..Len(deleted_records) :
               deleted_records[j].table_name = table
                   => deleted_records[j].deleted_at <= deleted_records[i].deleted_at}

\* C15: in every state of every session the record the undo button targets is
\* the tombstone of the table with the latest deleted_at, and the session's
\* view is empty exactly when the log holds no tombstone for the table.
C15_ViewFollowsLog ==
    \A s \in Sessions :
        /\ view[s].deleted = <<>> <=> LatestOfTable("food_consumption") = {}
        /\ view[s].deleted # <<>> =>
               \E i \in LatestOfTable("food_consumption") :
                   deleted_records[i].original_id =
                       view[s].deleted[Len(view[s].deleted)].id

\* C16: whenever a handler hands a record or a batch to add_record,
\* import_csv_data or update_record, it has validated it and the validator
\* has no error for it.
C16_ValidatedBeforeStored ==
    ui.stored => (ui.validated /\ ~ui.invalid)

\* A call of validate_record that returned its errors.
Returned == val.mode = "record" /\ val.pass >= 1 /\ val.first.raised = "None"

\* The record handed to validate_record omits the field or holds None or ''.
Omitted(f) ==
    \/ f \notin DOMAIN val.input
    \/ val.input[f] = NoneVal
    \/ val.input[f] = StrVal("")

OutOfRange(rules, v) ==
    /\ v.k # "nan"
    /\ \/ rules.hasmin /\ Num(v) < rules.min
       \/ rules.hasmax /\ Num(v) > rules.max

C23_NeverRaises ==
    (val.pass >= 1 /\ val.table \in DOMAIN val.schemas) =>
        /\ val.mode = "record" =>
               /\ val.first.raised = "None"
               /\ \A f \in DOMAIN val.schemas[val.table] \cap DOMAIN val.input :
                      (~Omitted(f)
                       /\ ~Coerce(val.schemas[val.table][f].type, val.input[f]).ok)
                          => f \in DOMAIN val.first.errors
        /\ (/\ val.mode = "frame"
            /\ \A c \in DOMAIN val.schemas[val.table] :
                   val.schemas[val.table][c].required => c \in val.input.columns)
               => val.first.raised = "None"

\* The schema columns the batch handed to validate_dataframe does not hold.
AbsentColumns ==
    {c \in DOMAIN val.schemas[val.table] : c \notin val.input.columns}

\* C24: for a table of the schema, validate_dataframe raises 'Missing required
\* columns' exactly when the batch lacks the column of a required field, and
\* then returns no row mapping; a batch that lacks optional columns only is
\* accepted, and a column it lacks appears neither in the returned frame nor in
\* a row mapping.
C24_MissingColumns ==
    (val.mode = "frame" /\ val.pass = 1 /\ val.table \in DOMAIN val.schemas) =>
        /\ val.first.raised = "ValueError: Missing required columns"
               <=> \E c \in AbsentColumns : val.schemas[val.table][c].required
        /\ val.first.raised # "None" =>
               (val.first.row_errors = <<>> /\ ~val.first.has_errors)
        /\ (\A c \in AbsentColumns : ~val.schemas[val.table][c].required) =>
               /\ val.first.raised = "None"
               /\ val.first.df.columns = val.input.columns
               /\ Len(val.first.df.rows) = Len(val.input.rows)
               /\ \A i \in 1..Len(val.first.df.rows) :
                      /\ DOMAIN val.first.df.rows[i] = val.input.columns
                      /\ DOMAIN val.first.row_errors[i] \cap AbsentColumns = {}

\* A batch of MaxRows rows without the optional numeric column was accepted.
C24_Witness ==
    /\ val.mode = "frame" /\ val.pass = 1 /\ val.table \in DOMAIN val.schemas
    /\ AbsentColumns = {"mean_consumption_chronic"}
    /\ ~val.schemas[val.table].mean_consumption_chronic.required
    /\ Len(val.input.rows) = MaxRows
    /\ val.first.raised = "None"

\* The type names a schema file may use.
SupportedNames ==
    {"str", "string", "float", "int", "integer", "bool", "boolean", "date", "datetime"}

\* The source handed to _load_schema cannot be used: it is missing or
\* unreadable, it does not parse to a mapping, or a field of it declares a type
\* that is no supported name.
Unusable(schema_file) ==
    \/ ~schema_file.exists
    \/ schema_file.kind # "mapping"
    \/ \E t \in DOMAIN schema_file.raw : \E f \in DOMAIN schema_file.raw[t] :
           /\ schema_file.raw[t][f].hastype
           /\ \/ schema_file.raw[t][f].type.k # "str"
              \/ Lower[schema_file.raw[t][f].type.s] \notin SupportedNames

\* C25: _load_schema raises nothing, and it gives the built-in schema whenever
\* the source is missing, unreadable or malformed or declares a field with an
\* unsupported type name.
C25_FallsBackToDefault ==
    (val.mode = "load" /\ val.pass = 1) =>
        /\ val.first.raised = "None"
        /\ Unusable(val.input) => val.first.schemas = _get_default_schema

\* clean_dataframe_for_import has returned a frame: for the parsed CSV, or for
\* the frame validate_dataframe made of it.
CleanedRaw == val.mode = "clean" /\ val.pass = 1 /\ val.first.raised = "None"
CleanedValidated == val.mode = "frame" /\ val.pass = 2 /\ val.second.raised = "None"

\* The frame is fully typed for the schema: schema columns only, numbers or NaN
\* in a float or integer column, text in a text column, and '' where the CSV
\* cell was missing.
FullyTyped(df) ==
    /\ df.columns \subseteq DOMAIN val.schemas[val.table]
    /\ Len(df.rows) = Len(val.input.rows)
    /\ \A i \in 1..Len(df.rows) :
           /\ DOMAIN df.rows[i] = df.columns
           /\ \A c \in df.columns :
                  LET type == val.schemas[val.table][c].type IN
                  /\ type \in {"float", "int"} =>
                         df.rows[i][c].k \in {"int", "float", "nan", "inf"}
                  /\ type = "str" =>
                         /\ df.rows[i][c].k = "str"
                         /\ val.input.rows[i][c].k \in {"nan", "none"} =>
                                df.rows[i][c] = StrVal("")

\* C26: the frame clean_dataframe_for_import returns holds schema columns only
\* and is fully typed, for a parsed CSV as well as for the frame
\* validate_dataframe returned: a number or NaN in every cell of a float or
\* integer column, text in every cell of a text column, '' for a missing cell.
C26_CleanIsFullyTyped ==
    /\ CleanedRaw => FullyTyped(val.first.df)
    /\ CleanedValidated => FullyTyped(val.second.df)

\* C27: add_record and import_csv_data on a table other than 'food_consumption'
\* end in an exception, not in a returned value such as None or False, and leave
\* the active table and the tombstone log as they were.
C27_UnknownTableRaises ==
    (last.op \in {"add_record", "import_csv_data"} /\ last.table # "food_consumption")
        => /\ last.result \notin {"None", "False", "True", "id"}
           /\ last.same

\* C28: import_csv_data of a frame that lacks 'commodity' or 'age_group' raises
\* the ValueError of the column check and has inserted nothing: both tables are
\* as they were.
C28_MissingColumnStopsImport ==
    (/\ last.op = "import_csv_data"
     /\ last.table = "food_consumption"
     /\ last.batch.missing)
        => /\ last.result = "ValueError"
           /\ last.new = {}
           /\ last.same

\* A frame of MaxRows rows without a required column was refused while the
\* active table held a row.
C28_Witness ==
    /\ last.op = "import_csv_data"
    /\ last.table = "food_consumption"
    /\ last.batch.missing
    /\ Len(last.batch.rows) = MaxRows
    /\ last.result = "ValueError"
    /\ food_consumption # <<>>

C30_RedeleteStacksTombstones ==
    (last.op = "delete_record" /\ last.active /\ last.tombs >= 1)
        => /\ last.result = "True"
           /\ Cardinality(Matching(deleted_records, last.id, last.table)) >= 2

\* C31: no call on the store takes an id out of both the active table and the
\* tombstones of the table, and every id add_record has returned is in one of
\* the two: a record the store has held is never in neither place, whatever
\* calls follow and however they end.
C31_NoRecordLost ==
    /\ last.lost = {}
    /\ issued \subseteq Stored(food_consumption, deleted_records)

\* An undo_delete that failed after its reinsert: the record is in the active
\* table and its tombstone is still in the log.
C31_Witness ==
    /\ last.op = "undo_delete"
    /\ last.result \notin {"True", "False"}
    /\ last.tombs >= 1
    /\ last.id \in DOMAIN food_consumption
    /\ last.id \in Stored(<<>>, deleted_records)

\* C32: between calls on the store no id is both a row of the active table and
\* the original_id of a tombstone of the table (the active table, keyed by
\* id, holds an id once).
C32_ActiveOrTombstoned ==
    \A i \in 1..Len(deleted_records) :
        deleted_records[i].table_name = "food_consumption"
            => deleted_records[i].original_id \notin DOMAIN food_consumption

====
